---------------------------- MODULE Spec2Model ----------------------------
(***************************************************************************)
(* Model of the rag_api conversational endpoint.                           *)
(*                                                                         *)
(*   Spec     the converse endpoint (src/main.py): one request at a time   *)
(*            walks build_agent -> agent.chat -> response resolution ->    *)
(*            response object, with a failure possible at every stage.     *)
(*   SpecCsv  the flat log data.csv: save_history (src/main.py) and        *)
(*            get_history_from_csv (src/agent.py) called on a growing log. *)
(*   SpecSave the same two calls, with every kind of turn on a short log.  *)
(*   SpecDb   the relational loader get_chat_history_from_db               *)
(*            (src/agent.py) called on query results and on faults.        *)
(*   SpecWorkers  save_history called by several workers, its existence   *)
(*            check and its write as separate steps on data.csv.           *)
(*                                                                         *)
(* Texts are TLA+ strings ("" is the empty text, \o is +).  A message of   *)
(* the relational log is a sequence of characters, because the loader      *)
(* strips quote characters from it.                                        *)
(***************************************************************************)
EXTENDS Integers, Sequences, FiniteSets, TLC

VARIABLES
    pc,             \* converse: position of the request being handled
    prompt,         \* converse: dto.prompt
    chat_history,   \* converse: chat_history the agent was built with
    res,            \* converse: result of agent.chat (response, sources)
    resolved,       \* converse: (response, tools_names, functions) of handle_message
    out,            \* converse: the ConverseResponseDto returned
    failure,        \* converse: the stage that raised and its message, if any
    trace,          \* converse: the stages the handler has run, in order
    log,            \* the flat log data.csv
    table,          \* the rows of the chat table for the conversation
    ret,            \* SpecCsv / SpecDb: the last call and what it returned
    workers,        \* SpecWorkers: each worker's position in save_history
    completed       \* SpecWorkers: the rows of the completed save_history calls

vars == <<pc, prompt, chat_history, res, resolved, out, failure, trace, log, table,
          ret, workers, completed>>

-----------------------------------------------------------------------------
(* Bounds *)

MaxInvocations == 3     \* longest list of tool invocations of one turn
MaxLogLines == 23       \* SpecCsv: most lines of data.csv (header included)
MaxSaveLines == 6       \* SpecSave: most lines of data.csv (header included)
MaxDetails == 2         \* SpecSave: longest list of tool details of one call
MaxRows == 4            \* SpecDb: most rows of the chat table
MaxCalls == 3           \* SpecWorkers: most save_history calls begun

-----------------------------------------------------------------------------
(* The tool catalog, src/tool.py *)

spec_functions ==
    { "answer_frequently_asked_question", "talk_to_human_agent",
      "skip_response_to_the_user", "greetings" }

\* What each tool returns; the knowledge lookup's answer is one fixed text.
ToolReturn(t) ==
    CASE t = "answer_frequently_asked_question" -> "I don't know."
      [] t = "talk_to_human_agent" ->
            "Tell user we are connecting you to a human agent. "
      [] t = "skip_response_to_the_user" ->
            "SUCCESS. No response will be sent to the user."
      [] t = "greetings" ->
            "Hello I am Smaro. I can help you with answering frequently asked question, and assist with talking to human agent."

\* One entry of res.sources: the record agent.chat keeps of a tool call.
ToolCall(t) ==
    [ tool_name  |-> t,
      content    |-> ToolReturn(t),
      raw_input  |-> "{}",
      raw_output |-> ToolReturn(t) ]

RECURSIVE SeqsUpTo(_, _)
SeqsUpTo(S, n) ==
    IF n = 0 THEN { <<>> }
    ELSE LET shorter == SeqsUpTo(S, n - 1)
         IN  shorter \cup { Append(s, x) : s \in shorter, x \in S }

\* res.sources for the tools called, in call order
ToolCalls(names) == [ i \in 1..Len(names) |-> ToolCall(names[i]) ]

\* The tools one turn may call, in call order
InvocationLists == SeqsUpTo(spec_functions, MaxInvocations)

-----------------------------------------------------------------------------
(* Response resolution, src/main.py *)

\* main.py:130-133
tool_response_dicte(t) ==
    CASE t = "talk_to_human_agent" ->
            "Tell user we are connecting you to a human agent. "
      [] t = "greetings" ->
            "Hello, I am Smaro. I can help you with user scheduling, uploading images, and assist with talking to a human agent. "

\* main.py:167
HandoffSentence == "Tell user we are connecting you to a human agent."

\* main.py:171
ThankYouReply == "Welcome"

\* main.py:171
TerminalGreeting ==
    "Hello I am Smaro. I can help you with answering frequently asked question, and assist with talking to human agent. "

\* main.py:181
FallbackSentence ==
    "Hello. I am Smaro. I can help you with answering frequently asked question, and assist with talking to human agent"

\* main.py:233
DegradedSentence ==
    "Sorry, I'm having technical issues. I can help you by answering frequently asked question, and assist with talking to human agent"

\* A projection that lists the tool names last call first
ToolsNamesReversed(functions) ==
    [ i \in 1..Len(functions) |->
        [ action |-> functions[Len(functions) - i + 1].tool_name ] ]

\* main.py:64-93: the projection of res.sources
ToolsNames(functions) ==
    [ i \in 1..Len(functions) |-> [ action |-> functions[i].tool_name ] ]

AgentSources(functions) ==
    [ i \in 1..Len(functions) |->
        [ thought    |-> functions[i].content,
          tool_name  |-> functions[i].tool_name,
          raw_input  |-> functions[i].raw_input,
          raw_output |-> functions[i].raw_output ] ]

SkipOnlyFlag(functions) ==
    \A i \in 1..Len(functions) :
        functions[i].tool_name = "skip_response_to_the_user"

extract_tools_name(functions) ==
    [ tool_name     |-> ToolsNames(functions),
      agent_sources |-> AgentSources(functions),
      flag          |-> SkipOnlyFlag(functions) ]

\* A resolver that stops at the first matching invocation
RECURSIVE AppendCannedFirst(_, _, _)
AppendCannedFirst(response, tools_names, i) ==
    IF i > Len(tools_names) THEN response
    ELSE IF tools_names[i].action \in { "talk_to_human_agent", "greetings" }
         THEN response \o tool_response_dicte(tools_names[i].action)
         ELSE AppendCannedFirst(response, tools_names, i + 1)

\* main.py:137-139: the loop over tools_names, from position i on
RECURSIVE AppendCanned(_, _, _)
AppendCanned(response, tools_names, i) ==
    IF i > Len(tools_names) THEN response
    ELSE IF tools_names[i].action \in { "talk_to_human_agent", "greetings" }
         THEN AppendCanned(response \o tool_response_dicte(tools_names[i].action),
                           tools_names, i + 1)
         ELSE AppendCanned(response, tools_names, i + 1)

\* A resolver that appends the canned responses to a non-empty reply too
deal_with_empty_unguarded(response, tools_names) ==
    AppendCanned(response, tools_names, 1)

\* main.py:135-140
deal_with_empty(response, tools_names) ==
    IF response = "" THEN AppendCanned(response, tools_names, 1) ELSE response

\* main.py:166-167
ReplaceHandoffEcho(response) ==
    IF response = "talk_to_human_agent" THEN HandoffSentence ELSE response

\* main.py:171
IsTerminal(response) ==
    response = ThankYouReply \/ response = TerminalGreeting

\* A resolver whose fallback test forgets the empty text
NeedsFallbackSentinelsOnly(response) ==
    \/ response = "skip_response_to_the_user"
    \/ response = "None"

\* main.py:174-181
NeedsFallback(response) ==
    \/ response = ""
    \/ response = "skip_response_to_the_user"
    \/ response = "None"

ApplyFallback(response) ==
    IF NeedsFallback(response) THEN FallbackSentence ELSE response

\* main.py:160-185: the text handle_message returns for res
ResolveText(raw, tools_names) ==
    LET r1 == deal_with_empty(raw, tools_names)
        r2 == ReplaceHandoffEcho(r1)
    IN  IF IsTerminal(r2) THEN r2 ELSE ApplyFallback(r2)


-----------------------------------------------------------------------------
(* The flat log data.csv: src/main.py save_history, src/agent.py           *)
(* get_history_from_csv.  The file is a sequence of lines; a line is a     *)
(* record of its four cells, the header line included.                     *)

\* agent.py:59
HistoryLimit == 20

\* main.py:126-128: the header to_csv writes (index_label="id")
HeaderLine == [ id |-> "id", message |-> "message", type |-> "type", tool |-> "tool" ]

NoFile == [ exists |-> FALSE, lines |-> <<>> ]

\* What pandas reads an empty cell as
NaN == "nan"

\* pd.read_csv of one cell of text
ReadCell(s) == IF s = "" THEN NaN ELSE s

\* agent.py:46-49: the first line names the columns, the others are the rows
ReadCsv(lines) ==
    [ i \in 1..(Len(lines) - 1) |->
        [ type    |-> ReadCell(lines[i + 1].type),
          message |-> ReadCell(lines[i + 1].message),
          tool    |-> ReadCell(lines[i + 1].tool) ] ]

\* agent.py:52-57
CsvChatMessage(row) ==
    IF row.type = "user"
    THEN [ role |-> "user", content |-> row.message, additional_kwargs |-> <<>> ]
    ELSE IF row.type = "function"
    THEN [ role |-> "function", content |-> row.message,
           additional_kwargs |-> << <<"name", row.tool>> >> ]
    ELSE [ role |-> "assistant", content |-> row.message, additional_kwargs |-> <<>> ]

\* A window that keeps the oldest entries
FirstN(s, n) ==
    IF Len(s) <= n THEN s ELSE SubSeq(s, 1, n)

\* chat_messages[-n:]
LastN(s, n) ==
    IF Len(s) <= n THEN s ELSE SubSeq(s, Len(s) - n + 1, Len(s))

\* agent.py:42-59, reading the file f
get_history_from_csv(f) ==
    IF f.exists
    THEN LET df == ReadCsv(f.lines)
             chat_messages == [ i \in 1..Len(df) |-> CsvChatMessage(df[i]) ]
         IN  LastN(chat_messages, HistoryLimit)
    ELSE <<>>

\* A writer that puts the bot row before the tool rows
SaveRowsBotFirst(user_message, bot_message, functions) ==
    << [ id |-> "0", message |-> user_message, type |-> "user", tool |-> "" ],
       [ id |-> "1", message |-> bot_message, type |-> "bot", tool |-> "" ] >>
    \o [ i \in 1..Len(functions) |->
            [ id      |-> ToString(i + 1),
              message |-> functions[i].thought,
              type    |-> "function",
              tool    |-> functions[i].tool_name ] ]

\* main.py:107-122: the rows of the DataFrame, indexed from 0
SaveRows(user_message, bot_message, functions) ==
    LET messages == <<user_message>>
                    \o [ i \in 1..Len(functions) |-> functions[i].thought ]
                    \o <<bot_message>>
        types    == <<"user">>
                    \o [ i \in 1..Len(functions) |-> "function" ]
                    \o <<"bot">>
        tools    == <<"">>
                    \o [ i \in 1..Len(functions) |-> functions[i].tool_name ]
                    \o <<"">>
    IN  [ i \in 1..Len(messages) |->
            [ id      |-> ToString(i - 1),
              message |-> messages[i],
              type    |-> types[i],
              tool    |-> tools[i] ] ]

\* main.py:125-128: the file after save_history, from the file f
save_history(f, user_message, bot_message, functions) ==
    LET data == SaveRows(user_message, bot_message, functions)
    IN  IF f.exists
        THEN [ exists |-> TRUE, lines |-> f.lines \o data ]
        ELSE [ exists |-> TRUE, lines |-> <<HeaderLine>> \o data ]

-----------------------------------------------------------------------------
(* The converse endpoint, src/main.py *)

Prompts == { "hi", "asdkjh" }

\* The texts agent.chat may reply with
RawTexts ==
    { "", "None", "Welcome", "I don't know.", TerminalGreeting, FallbackSentence }
    \cup spec_functions
    \cup { ToolReturn(t) : t \in spec_functions }

\* The messages of the exceptions a stage may raise
FailureMessages == { "Connection error.", "1 validation error" }

NoRes      == [ response |-> "", sources |-> <<>> ]
NoResolved == [ response |-> "", tools_names |-> <<>>, functions |-> <<>> ]
NoOut      == [ response |-> "", success |-> FALSE, error |-> "",
                type |-> <<>>, functions |-> <<>> ]
NoFailure  == [ stage |-> "none", message |-> "" ]

\* An agent built with the window of the flat log as its chat history
build_agent_with_history == [ chat_history |-> get_history_from_csv(log) ]

\* agent.py:134-141: the chat history the agent is built with
build_agent == [ chat_history |-> <<>> ]

\* main.py:160-185
handle_message(r) ==
    LET x == extract_tools_name(r.sources)
    IN  [ response    |-> ResolveText(r.response, x.tool_name),
          tools_names |-> x.tool_name,
          functions   |-> x.agent_sources ]

\* main.py:186-187
HandleMessageError(e) == "Error in handle_message function is " \o e

\* main.py:228-230
ConverseSuccess(rv) ==
    [ response |-> rv.response, error |-> "", success |-> TRUE,
      type |-> rv.tools_names, functions |-> rv.functions ]

\* An except branch that drops the error detail
ConverseExceptNoDetail(e) ==
    [ response |-> DegradedSentence, error |-> "", success |-> FALSE,
      type |-> <<>>, functions |-> <<>> ]

\* main.py:231-238
ConverseExcept(e) ==
    [ response |-> DegradedSentence, error |-> e, success |-> FALSE,
      type |-> <<>>, functions |-> <<>> ]

NoRet == [ op |-> "none" ]

\* The workers that serve requests (main.py:250: gunicorn -w 4; a sync
\* endpoint also runs on a thread of the pool per request)
Workers == { "w1", "w2" }

\* A worker that is not inside save_history
IdleWorker == [ pc |-> "idle", exists |-> FALSE, data |-> <<>> ]

NoWorkers == [ w \in Workers |-> IdleWorker ]

\* data.csv as the service may find it when it starts: absent, or left by an
\* earlier deployment (one turn, or one row of a type save_history never writes)
LogKinds == { "absent", "one_turn", "foreign_row" }

InitialLog(kind) ==
    CASE kind = "absent" -> [ exists |-> FALSE, lines |-> <<>> ]
      [] kind = "one_turn" ->
            save_history([ exists |-> FALSE, lines |-> <<>> ], "hi", "Welcome", <<>>)
      [] kind = "foreign_row" ->
            [ exists |-> TRUE,
              lines  |-> << [ id |-> "id", message |-> "message", type |-> "type",
                              tool |-> "tool" ],
                            [ id |-> "0", message |-> "", type |-> "system",
                              tool |-> "" ] >> ]

Init ==
    /\ pc = "idle"
    /\ prompt = ""
    /\ chat_history = <<>>
    /\ res = NoRes
    /\ resolved = NoResolved
    /\ out = NoOut
    /\ failure = NoFailure
    /\ trace = <<>>
    /\ \E kind \in LogKinds : log = InitialLog(kind)
    /\ table = <<>>
    /\ ret = NoRet
    /\ workers = NoWorkers
    /\ completed = <<>>

\* main.py:212: a request arrives (the worker handles one request at a time)
Receive(p) ==
    /\ pc \in { "idle", "done" }
    /\ pc' = "build_agent"
    /\ prompt' = p
    /\ chat_history' = <<>>
    /\ res' = NoRes
    /\ resolved' = NoResolved
    /\ out' = NoOut
    /\ failure' = NoFailure
    /\ trace' = <<>>
    /\ UNCHANGED <<log, table, ret,
                 workers, completed>>

\* main.py:156-158
BuildAgent ==
    /\ pc = "build_agent"
    /\ chat_history' = build_agent.chat_history
    /\ trace' = Append(trace, "build_agent")
    /\ pc' = "chat"
    /\ UNCHANGED <<prompt, res, resolved, out, failure, log, table, ret,
                 workers, completed>>

\* main.py:159: the intent resolver replies raw after calling the tools names
Chat(raw, names) ==
    /\ pc = "chat"
    /\ res' = [ response |-> raw, sources |-> ToolCalls(names) ]
    /\ trace' = Append(trace, "chat")
    /\ pc' = "resolve"
    /\ UNCHANGED <<prompt, chat_history, resolved, out, failure, log, table, ret,
                 workers, completed>>

\* main.py:160-185
Resolve ==
    /\ pc = "resolve"
    /\ resolved' = handle_message(res)
    /\ trace' = Append(trace, "resolve")
    /\ pc' = "respond"
    /\ UNCHANGED <<prompt, chat_history, res, out, failure, log, table, ret,
                 workers, completed>>

\* main.py:225-230
Respond ==
    /\ pc = "respond"
    /\ out' = ConverseSuccess(resolved)
    /\ trace' = Append(trace, "return")
    /\ pc' = "done"
    /\ UNCHANGED <<prompt, chat_history, res, resolved, failure, log, table, ret,
                 workers, completed>>

\* main.py:186-187, 231-238: a stage of handle_message raises e; the locals
\* of handle_message are gone when converse catches the ValueError
HandleMessageFails(e) ==
    /\ pc \in { "build_agent", "chat", "resolve" }
    /\ failure' = [ stage |-> pc, message |-> e ]
    /\ out' = ConverseExcept(HandleMessageError(e))
    /\ pc' = "done"
    /\ chat_history' = <<>>
    /\ res' = NoRes
    /\ resolved' = NoResolved
    /\ UNCHANGED <<prompt, trace, log, table, ret,
                 workers, completed>>

\* main.py:228-238: building the response object raises e; the except
\* branch uses nothing of what handle_message returned
ResponseObjectFails(e) ==
    /\ pc = "respond"
    /\ failure' = [ stage |-> pc, message |-> e ]
    /\ out' = ConverseExcept(e)
    /\ pc' = "done"
    /\ chat_history' = <<>>
    /\ res' = NoRes
    /\ resolved' = NoResolved
    /\ UNCHANGED <<prompt, trace, log, table, ret,
                 workers, completed>>

Next ==
    \/ \E p \in Prompts : Receive(p)
    \/ BuildAgent
    \/ \E raw \in RawTexts, names \in InvocationLists : Chat(raw, names)
    \/ Resolve
    \/ Respond
    \/ \E e \in FailureMessages : HandleMessageFails(e)
    \/ \E e \in FailureMessages : ResponseObjectFails(e)

Spec == Init /\ [][Next]_vars

-----------------------------------------------------------------------------
(* Claims about the converse endpoint, checked under Spec *)

\* handle_message has returned: its result is in resolved
Returned == pc = "respond"

ToolNameAt(i) == res.sources[i].tool_name

MatchingPositions ==
    { i \in 1..Len(res.sources) : ToolNameAt(i) \in { "talk_to_human_agent", "greetings" } }

\* C1: whenever handle_message returns, the final text is not empty, not
\* the literal "None" and not the identifier of a catalog tool.
ClaimC1_SafeText ==
    Returned =>
        resolved.response \notin
            { "", "None", "answer_frequently_asked_question", "talk_to_human_agent",
              "skip_response_to_the_user", "greetings" }

\* C2: a raw reply that is non-empty and none of "talk_to_human_agent",
\* "skip_response_to_the_user", "None" is returned as the final text
\* unchanged, whatever tools were invoked.
ClaimC2_AuthorityOfText ==
    ( /\ Returned
      /\ res.response \notin
            { "", "talk_to_human_agent", "skip_response_to_the_user", "None" } )
    => resolved.response = res.response

WitnessC2 ==
    /\ Returned
    /\ res.response = "I don't know."
    /\ Len(res.sources) = 2
    /\ ToolNameAt(1) = "talk_to_human_agent"
    /\ ToolNameAt(2) = "greetings"
    /\ resolved.response = "I don't know."

\* The canned responses of the matching invocations of sources, from first to last
RECURSIVE CannedConcat(_)
CannedConcat(sources) ==
    IF sources = <<>> THEN ""
    ELSE LET t == Head(sources).tool_name
             first == IF t = "talk_to_human_agent"
                      THEN "Tell user we are connecting you to a human agent. "
                      ELSE IF t = "greetings"
                      THEN "Hello, I am Smaro. I can help you with user scheduling, uploading images, and assist with talking to a human agent. "
                      ELSE ""
         IN  first \o CannedConcat(Tail(sources))

\* C3 as stated: with an empty raw reply the final text is the concatenation,
\* in invocation order, of the canned response of every handoff or greet
\* invocation.
ClaimC3_Original ==
    (Returned /\ res.response = "") => resolved.response = CannedConcat(res.sources)

\* C3 as amended: with an empty raw reply and at least one handoff or greet
\* invocation, the final text is the concatenation, in invocation order, of
\* the canned response of every handoff or greet invocation; one handoff
\* alone gives the handoff sentence, a handoff then a greet gives the
\* handoff canned response followed by the greet canned response.
ClaimC3_Concatenation ==
    (Returned /\ res.response = "" /\ MatchingPositions # {}) =>
        /\ resolved.response = CannedConcat(res.sources)
        /\ ( Len(res.sources) = 1 /\ ToolNameAt(1) = "talk_to_human_agent" )
            => resolved.response = "Tell user we are connecting you to a human agent. "
        /\ ( /\ Len(res.sources) = 2
             /\ ToolNameAt(1) = "talk_to_human_agent"
             /\ ToolNameAt(2) = "greetings" )
            => resolved.response =
                 "Tell user we are connecting you to a human agent. Hello, I am Smaro. I can help you with user scheduling, uploading images, and assist with talking to a human agent. "

WitnessC3 ==
    /\ Returned
    /\ res.response = ""
    /\ Len(res.sources) = 3
    /\ ToolNameAt(1) = "talk_to_human_agent"
    /\ ToolNameAt(2) = "skip_response_to_the_user"
    /\ ToolNameAt(3) = "greetings"
    /\ resolved.response = CannedConcat(res.sources)

\* C4: with an empty raw reply and no handoff or greet invocation (no
\* invocation at all, or skip invocations only, included), the final text is
\* the fallback sentence.
ClaimC4_Fallback ==
    (Returned /\ res.response = "" /\ MatchingPositions = {}) =>
        resolved.response =
            "Hello. I am Smaro. I can help you with answering frequently asked question, and assist with talking to human agent"

WitnessC4 ==
    /\ Returned
    /\ res.response = ""
    /\ Len(res.sources) = 2
    /\ \A i \in 1..2 : ToolNameAt(i) = "skip_response_to_the_user"
    /\ resolved.response = FallbackSentence

\* C5: converse never raises and always returns a response object: after a
\* failure of any stage it has success = false, the fixed degraded-service
\* sentence, the failure's message in error and empty type and functions;
\* otherwise success = true, an empty error and the resolved text and lists.
ClaimC5_Contained ==
    /\ pc \in { "idle", "build_agent", "chat", "resolve", "respond", "done" }
    /\ pc = "done" =>
        IF failure.stage = "none"
        THEN /\ out.success = TRUE
             /\ out.error = ""
             /\ out.response = resolved.response
             /\ out.type = resolved.tools_names
             /\ out.functions = resolved.functions
        ELSE /\ out.success = FALSE
             /\ out.response =
                  "Sorry, I'm having technical issues. I can help you by answering frequently asked question, and assist with talking to human agent"
             /\ out.error =
                  IF failure.stage = "respond"
                  THEN failure.message
                  ELSE "Error in handle_message function is " \o failure.message
             /\ out.type = <<>>
             /\ out.functions = <<>>

WitnessC5 ==
    /\ pc = "done"
    /\ failure.stage = "resolve"
    /\ trace = << "build_agent", "chat" >>
    /\ out.success = FALSE
    /\ out.error = "Error in handle_message function is Connection error."

\* The lines the turn just handled would have appended to the flat log
TurnLines == SaveRows(prompt, out.response, out.functions)

ClaimC11_Projection ==
    Returned =>
        LET n == Len(res.sources)
        IN  /\ Len(resolved.tools_names) = n
            /\ Len(resolved.functions) = n
            /\ n = 0 => resolved.tools_names = <<>> /\ resolved.functions = <<>>
            /\ \A i \in 1..n :
                  /\ resolved.tools_names[i] = [ action |-> res.sources[i].tool_name ]
                  /\ resolved.functions[i] =
                        [ thought    |-> res.sources[i].content,
                          tool_name  |-> res.sources[i].tool_name,
                          raw_input  |-> res.sources[i].raw_input,
                          raw_output |-> res.sources[i].raw_output ]

WitnessC11 ==
    /\ Returned
    /\ res.response = "None"
    /\ resolved.response = FallbackSentence
    /\ Len(res.sources) = 3
    /\ ToolNameAt(1) = "greetings"
    /\ ToolNameAt(2) = "skip_response_to_the_user"
    /\ ToolNameAt(3) = "answer_frequently_asked_question"
    /\ resolved.tools_names[1].action = "greetings"
    /\ resolved.functions[3].tool_name = "answer_frequently_asked_question"

\* The positions of res.sources that invoke the greet tool
GreetPositions == { i \in 1..Len(res.sources) : ToolNameAt(i) = "greetings" }

HandoffPositions ==
    { i \in 1..Len(res.sources) : ToolNameAt(i) = "talk_to_human_agent" }

\* C14: the greeting sentence of the early-return check is the greet tool's
\* canned response: an empty raw reply with exactly one greet invocation and
\* no handoff resolves to that terminal greeting sentence.
ClaimC14_TerminalGreeting ==
    ( /\ Returned
      /\ res.response = ""
      /\ Cardinality(GreetPositions) = 1
      /\ HandoffPositions = {} )
    => resolved.response =
         "Hello I am Smaro. I can help you with answering frequently asked question, and assist with talking to human agent. "

-----------------------------------------------------------------------------
(* The flat log on its own: save_history and get_history_from_csv called   *)
(* as functions.  SpecCsv grows a long log from few kinds of turn; SpecSave *)
(* writes a short log from every kind of turn.                             *)

InitCsv ==
    /\ pc = "idle"
    /\ prompt = ""
    /\ chat_history = <<>>
    /\ res = NoRes
    /\ resolved = NoResolved
    /\ out = NoOut
    /\ failure = NoFailure
    /\ trace = <<>>
    /\ \E kind \in LogKinds : log = InitialLog(kind)
    /\ table = <<>>
    /\ ret = NoRet
    /\ workers = NoWorkers
    /\ completed = <<>>

\* The lines save_history adds to the file f for k tool details
LinesAdded(f, k) == (IF f.exists THEN 0 ELSE 1) + k + 2

\* main.py:96-128, called with the tool details of the tools names, while
\* the file stays within cap lines
SaveHistoryCall(user_message, bot_message, names, cap) ==
    LET functions == AgentSources(ToolCalls(names))
    IN  /\ Len(log.lines) + LinesAdded(log, Len(names)) <= cap
        /\ log' = save_history(log, user_message, bot_message, functions)
        /\ ret' = [ op           |-> "save_history",
                    user_message |-> user_message,
                    bot_message  |-> bot_message,
                    functions    |-> functions,
                    before       |-> log ]
    /\ UNCHANGED <<pc, prompt, chat_history, res, resolved, out, failure, trace, table,
                 workers, completed>>

\* agent.py:42-59
GetHistoryFromCsvCall ==
    /\ ret' = [ op |-> "get_history_from_csv", window |-> get_history_from_csv(log) ]
    /\ UNCHANGED <<pc, prompt, chat_history, res, resolved, out, failure, trace, log, table,
                 workers, completed>>

\* The tools of the turns SpecCsv appends: none, one, two
PlainDetails ==
    { <<>>,
      << "talk_to_human_agent" >>,
      << "answer_frequently_asked_question", "greetings" >> }

NextCsv ==
    \/ \E names \in PlainDetails :
          SaveHistoryCall("hi", "Welcome", names, MaxLogLines)
    \/ GetHistoryFromCsvCall

SpecCsv == InitCsv /\ [][NextCsv]_vars

UserMessages == { "", "hi", "asdkjh" }

BotMessages == { "Welcome", FallbackSentence, ToolReturn("talk_to_human_agent") }

\* The tools whose details SpecSave saves, in call order
DetailSources == SeqsUpTo(spec_functions, MaxDetails)

NextSave ==
    \/ \E u \in UserMessages, b \in BotMessages, names \in DetailSources :
          SaveHistoryCall(u, b, names, MaxSaveLines)
    \/ GetHistoryFromCsvCall

SpecSave == InitCsv /\ [][NextSave]_vars

-----------------------------------------------------------------------------
(* The flat log written by several workers: save_history as its two steps  *)
(* on the file, the existence check and the write.                         *)

\* DataFrame.to_csv(path, mode, header): mode "w" truncates the file,
\* mode "a" writes at its end; both create it
to_csv(f, data, mode, header) ==
    LET old == IF mode = "a" /\ f.exists THEN f.lines ELSE <<>>
        top == IF header THEN <<HeaderLine>> ELSE <<>>
    IN  [ exists |-> TRUE, lines |-> old \o top \o data ]

\* The save_history calls begun so far
CallsBegun ==
    Len(completed) + Cardinality({ w \in Workers : workers[w].pc = "write" })

InitWorkers ==
    /\ pc = "idle"
    /\ prompt = ""
    /\ chat_history = <<>>
    /\ res = NoRes
    /\ resolved = NoResolved
    /\ out = NoOut
    /\ failure = NoFailure
    /\ trace = <<>>
    /\ table = <<>>
    /\ ret = NoRet
    /\ workers = NoWorkers
    /\ \/ log = InitialLog("absent") /\ completed = <<>>
       \/ /\ log = InitialLog("one_turn")
          /\ completed = << SaveRows("hi", "Welcome", <<>>) >>

\* main.py:107-125: worker w builds the DataFrame of the turn and tests
\* os.path.exists("data.csv")
SaveHistoryCheck(w, user_message, names) ==
    /\ workers[w].pc = "idle"
    /\ CallsBegun < MaxCalls
    /\ workers' =
          [ workers EXCEPT ![w] =
              [ pc     |-> "write",
                exists |-> log.exists,
                data   |-> SaveRows(user_message, "Welcome",
                                    AgentSources(ToolCalls(names))) ] ]
    /\ UNCHANGED <<pc, prompt, chat_history, res, resolved, out, failure, trace,
                   log, table, ret, completed>>

\* main.py:125-128: worker w writes, in the mode its test chose, and returns
SaveHistoryWrite(w) ==
    /\ workers[w].pc = "write"
    /\ log' = IF workers[w].exists
              THEN to_csv(log, workers[w].data, "a", FALSE)
              ELSE to_csv(log, workers[w].data, "w", TRUE)
    /\ completed' = Append(completed, workers[w].data)
    /\ workers' = [ workers EXCEPT ![w] = IdleWorker ]
    /\ UNCHANGED <<pc, prompt, chat_history, res, resolved, out, failure, trace,
                   table, ret>>

NextWorkers ==
    \/ \E w \in Workers, user_message \in Prompts, names \in PlainDetails :
          SaveHistoryCheck(w, user_message, names)
    \/ \E w \in Workers : SaveHistoryWrite(w)

SpecWorkers == InitWorkers /\ [][NextWorkers]_vars

-----------------------------------------------------------------------------
(* Claims about the flat log *)

\* The rows of the calls, one call after the other
RECURSIVE Flatten(_)
Flatten(calls) ==
    IF calls = <<>> THEN <<>> ELSE Head(calls) \o Flatten(Tail(calls))

\* C13: after any sequence of save_history calls, their existence checks
\* and writes interleaved between workers included, the log is a single
\* header line followed by the rows of every completed call: no row of a
\* completed call is removed or overwritten by another call.
ClaimC13_AppendOnly ==
    /\ ~log.exists => completed = <<>>
    /\ log.exists =>
          /\ log.lines[1] = HeaderLine
          /\ \A i \in 2..Len(log.lines) : log.lines[i] # HeaderLine
          /\ SubSeq(log.lines, 2, Len(log.lines)) = Flatten(completed)


\* The rows of data.csv: its lines after the header
LogRowCount == IF log.exists THEN Len(log.lines) - 1 ELSE 0

\* C7: get_history_from_csv returns exactly the last min(n, 20) of the n
\* rows of the log as turns, in log order, "user" as USER, "function" as
\* TOOL with the row's tool name, any other type as ASSISTANT; it returns
\* the empty window when the file does not exist.
ClaimC7_CsvWindow ==
    ret.op = "get_history_from_csv" =>
        LET n == LogRowCount
            w == ret.window
            m == IF n < 20 THEN n ELSE 20
        IN  /\ Len(w) = m
            /\ ~log.exists => w = <<>>
            /\ \A i \in 1..m :
                  LET line == log.lines[1 + (n - m) + i]
                  IN  /\ w[i].content = (IF line.message = "" THEN "nan" ELSE line.message)
                      /\ line.type = "user" =>
                            w[i].role = "user" /\ w[i].additional_kwargs = <<>>
                      /\ line.type = "function" =>
                            /\ w[i].role = "function"
                            /\ w[i].additional_kwargs = << <<"name", line.tool>> >>
                      /\ line.type \notin { "user", "function" } =>
                            w[i].role = "assistant" /\ w[i].additional_kwargs = <<>>

WitnessC7 ==
    /\ ret.op = "get_history_from_csv"
    /\ LogRowCount = 22
    /\ Len(ret.window) = 20
    /\ ret.window[1].role = "function"
    /\ ret.window[20].role = "assistant"

\* C10: save_history writes exactly k+2 rows for k tool details: the user
\* row (type user, no tool), one row per tool detail in order (type
\* function, message the thought, tool the tool name), the bot row (type
\* bot, no tool); what the file held before is kept.
ClaimC10_SaveRows ==
    ret.op = "save_history" =>
        LET k    == Len(ret.functions)
            kept == IF ret.before.exists THEN ret.before.lines ELSE <<HeaderLine>>
            base == Len(kept)
        IN  /\ log.exists
            /\ Len(log.lines) = base + k + 2
            /\ SubSeq(log.lines, 1, base) = kept
            /\ log.lines[base + 1].message = ret.user_message
            /\ log.lines[base + 1].type = "user"
            /\ log.lines[base + 1].tool = ""
            /\ \A i \in 1..k :
                  /\ log.lines[base + 1 + i].message = ret.functions[i].thought
                  /\ log.lines[base + 1 + i].type = "function"
                  /\ log.lines[base + 1 + i].tool = ret.functions[i].tool_name
            /\ log.lines[base + k + 2].message = ret.bot_message
            /\ log.lines[base + k + 2].type = "bot"
            /\ log.lines[base + k + 2].tool = ""

WitnessC10 ==
    /\ ret.op = "save_history"
    /\ ret.before.exists
    /\ Len(ret.functions) = 2
    /\ ret.functions[1].tool_name = "greetings"
    /\ ret.functions[2].tool_name = "talk_to_human_agent"
    /\ ret.user_message = ""
    /\ Len(log.lines) = 6

-----------------------------------------------------------------------------
(* The relational loader, src/agent.py.  A row of the query result has a   *)
(* type, a message (NULL, or a text given as its sequence of characters)   *)
(* and a meta_data cell (NULL, or a text).                                 *)

\* agent.py:110: chat_messages[-10:-1]
WindowStart == 10
WindowStop == 1

NullCell == [ null |-> TRUE, text |-> <<>> ]
Text(chars) == [ null |-> FALSE, text |-> chars ]

\* The Python values the meta_data texts of the model denote
PyNone == [ kind |-> "None", truthy |-> FALSE, has_functions |-> FALSE, functions |-> <<>> ]
PyInt5 == [ kind |-> "int", truthy |-> TRUE, has_functions |-> FALSE, functions |-> <<>> ]
PyDict(fs) ==
    [ kind |-> "dict", truthy |-> TRUE, has_functions |-> TRUE, functions |-> fs ]
PyDictOther ==
    [ kind |-> "dict", truthy |-> TRUE, has_functions |-> FALSE, functions |-> <<>> ]

\* ast.literal_eval on the meta_data texts of the model: the value, or the
\* name of the exception it raises (agent.py:149).  f1 and f2 abbreviate the
\* dict literals of two tool details; "-...-1" abbreviates a literal nested
\* deeper than the parser's stack.  A dict display with a list as key is
\* parsed and then fails to build (unhashable type); any other text of the
\* model is not a literal at all.
literal_eval(text) ==
    CASE text = "{'functions': [f1]}" ->
            [ raised |-> "",
              value  |-> PyDict(AgentSources(<< ToolCall("talk_to_human_agent") >>)) ]
      [] text = "{'functions': [f1, f2]}" ->
            [ raised |-> "",
              value  |-> PyDict(AgentSources(<< ToolCall("answer_frequently_asked_question"),
                                                ToolCall("greetings") >>)) ]
      [] text = "{'source': 'web'}" -> [ raised |-> "", value |-> PyDictOther ]
      [] text = "5" -> [ raised |-> "", value |-> PyInt5 ]
      [] text = "{'functions': {[]}}" -> [ raised |-> "TypeError", value |-> PyNone ]
      [] text = "-...-1" -> [ raised |-> "MemoryError", value |-> PyNone ]
      [] OTHER -> [ raised |-> "SyntaxError", value |-> PyNone ]

\* agent.py:144-152: the value, or the name of the exception that escapes
\* the except clause
safe_literal_eval(val) ==
    IF val.null THEN [ raised |-> "", value |-> PyNone ]
    ELSE LET r == literal_eval(val.text)
         IN  IF r.raised \in { "ValueError", "SyntaxError" }
             THEN [ raised |-> "", value |-> PyNone ]
             ELSE r

\* str.strip(c): s without its leading and trailing characters c
RECURSIVE LStrip(_, _)
LStrip(s, c) ==
    IF s # <<>> /\ Head(s) = c THEN LStrip(Tail(s), c) ELSE s

RECURSIVE RStrip(_, _)
RStrip(s, c) ==
    IF s # <<>> /\ s[Len(s)] = c THEN RStrip(SubSeq(s, 1, Len(s) - 1), c) ELSE s

Strip(s, c) == RStrip(LStrip(s, c), c)

\* agent.py:102, 108: messages[i].strip('"').strip("'")
StripQuotes(s) == Strip(Strip(s, "\""), "'")

\* agent.py:95, 101-108: the turns of row i, or the exception the row
\* raises; safe_literal_eval is applied to the meta_data of every row,
\* whatever its type.  The field row is not a field of ChatMessage: it
\* records the row a turn was derived from.
RowMessages(df, i) ==
    LET r      == df[i]
        parsed == safe_literal_eval(r.meta_data)
        meta   == parsed.value
    IN  IF parsed.raised # ""
        THEN [ raised |-> TRUE, turns |-> <<>> ]
        ELSE IF r.type = "user"
        THEN IF r.message.null
             THEN [ raised |-> TRUE, turns |-> <<>> ]
             ELSE [ raised |-> FALSE,
                    turns  |-> << [ role |-> "user",
                                    content |-> StripQuotes(r.message.text),
                                    additional_kwargs |-> <<>>, row |-> i ] >> ]
        ELSE IF r.type = "bot"
        THEN IF meta.truthy /\ meta.kind # "dict"
             THEN [ raised |-> TRUE, turns |-> <<>> ]
             ELSE IF r.message.null
             THEN [ raised |-> TRUE, turns |-> <<>> ]
             ELSE [ raised |-> FALSE,
                    turns  |->
                      ( IF meta.truthy /\ meta.has_functions
                        THEN [ j \in 1..Len(meta.functions) |->
                                 [ role |-> "function",
                                   content |-> meta.functions[j].thought,
                                   additional_kwargs |->
                                       << <<"name", meta.functions[j].tool_name>> >>,
                                   row |-> i ] ]
                        ELSE <<>> )
                      \o << [ role |-> "assistant",
                              content |-> StripQuotes(r.message.text),
                              additional_kwargs |-> <<>>, row |-> i ] >> ]
        ELSE [ raised |-> FALSE, turns |-> <<>> ]

\* agent.py:94-108: the loop over the rows, from row i on
RECURSIVE DbChatMessages(_, _)
DbChatMessages(df, i) ==
    IF i > Len(df) THEN [ raised |-> FALSE, turns |-> <<>> ]
    ELSE LET here == RowMessages(df, i)
             rest == DbChatMessages(df, i + 1)
         IN  IF here.raised \/ rest.raised
             THEN [ raised |-> TRUE, turns |-> <<>> ]
             ELSE [ raised |-> FALSE, turns |-> here.turns \o rest.turns ]

\* The ways the lookup can go
DbStatuses == { "ok", "connect_error", "query_error", "query_other_error" }

\* agent.py:61-86: connect fails with connection unbound, so the finally
\* block raises UnboundLocalError; a mysql error of the query leaves an
\* empty frame; any other exception of the query propagates
get_history_from_sql(status, rows) ==
    CASE status = "ok" -> [ raised |-> "", df |-> rows ]
      [] status = "connect_error" -> [ raised |-> "UnboundLocalError", df |-> <<>> ]
      [] status = "query_error" -> [ raised |-> "", df |-> <<>> ]
      [] status = "query_other_error" -> [ raised |-> "TypeError", df |-> <<>> ]

\* s[-a:-b]
SliceFromEnd(s, a, b) ==
    SubSeq(s, (IF Len(s) > a THEN Len(s) - a + 1 ELSE 1), Len(s) - b)

\* A handler that catches the database driver's errors only
HandleDbExceptionDriverOnly(exc) ==
    IF exc = "mysql.connector.Error"
    THEN [ raised |-> FALSE, window |-> <<>> ]
    ELSE [ raised |-> TRUE, window |-> <<>> ]

\* agent.py:111-113: except Exception
HandleDbException(exc) == [ raised |-> FALSE, window |-> <<>> ]

\* agent.py:88-113
get_chat_history_from_db(status, rows) ==
    LET q == get_history_from_sql(status, rows)
    IN  IF q.raised # "" THEN HandleDbException(q.raised)
        ELSE LET t == DbChatMessages(q.df, 1)
             IN  IF t.raised THEN HandleDbException("TypeError")
                 ELSE [ raised |-> FALSE,
                        window |-> SliceFromEnd(t.turns, WindowStart, WindowStop) ]

\* The rows the chat table may hold
RowKinds ==
    { "user", "user_quoted", "user_null", "human_agent", "bot_quoted",
      "bot_bad_meta", "bot_other_meta", "bot_one_tool", "bot_two_tools",
      "bot_number_meta", "bot_unhashable_meta", "bot_deep_meta" }

Row(kind) ==
    CASE kind = "user" ->
            [ type |-> "user", message |-> Text(<<"h", "i">>), meta_data |-> NullCell ]
      [] kind = "user_quoted" ->
            [ type |-> "user", message |-> Text(<<"\"", "'", "h", "i", "'", "\"">>),
              meta_data |-> NullCell ]
      [] kind = "user_null" ->
            [ type |-> "user", message |-> NullCell, meta_data |-> NullCell ]
      [] kind = "human_agent" ->
            [ type |-> "human_agent", message |-> NullCell, meta_data |-> NullCell ]
      [] kind = "bot_quoted" ->
            [ type |-> "bot", message |-> Text(<<"'", "\"", "o", "k", "\"", "'">>),
              meta_data |-> NullCell ]
      [] kind = "bot_bad_meta" ->
            [ type |-> "bot", message |-> Text(<<"o", "k">>),
              meta_data |-> Text("{'functions': [") ]
      [] kind = "bot_other_meta" ->
            [ type |-> "bot", message |-> Text(<<"o", "k">>),
              meta_data |-> Text("{'source': 'web'}") ]
      [] kind = "bot_one_tool" ->
            [ type |-> "bot", message |-> Text(<<"o", "k">>),
              meta_data |-> Text("{'functions': [f1]}") ]
      [] kind = "bot_two_tools" ->
            [ type |-> "bot", message |-> Text(<<"o", "k">>),
              meta_data |-> Text("{'functions': [f1, f2]}") ]
      [] kind = "bot_number_meta" ->
            [ type |-> "bot", message |-> Text(<<"o", "k">>), meta_data |-> Text("5") ]
      [] kind = "bot_unhashable_meta" ->
            [ type |-> "bot", message |-> Text(<<"o", "k">>),
              meta_data |-> Text("{'functions': {[]}}") ]
      [] kind = "bot_deep_meta" ->
            [ type |-> "bot", message |-> Text(<<"o", "k">>),
              meta_data |-> Text("-...-1") ]

InitDb ==
    /\ pc = "idle"
    /\ prompt = ""
    /\ chat_history = <<>>
    /\ res = NoRes
    /\ resolved = NoResolved
    /\ out = NoOut
    /\ failure = NoFailure
    /\ trace = <<>>
    /\ log = NoFile
    /\ table = <<>>
    /\ ret = NoRet
    /\ workers = NoWorkers
    /\ completed = <<>>

\* A row is inserted into the chat table (by the service that owns it)
InsertRow(kind) ==
    /\ Len(table) < MaxRows
    /\ table' = Append(table, Row(kind))
    /\ ret' = NoRet
    /\ UNCHANGED <<pc, prompt, chat_history, res, resolved, out, failure, trace, log,
                 workers, completed>>

\* agent.py:88-113
GetChatHistoryFromDbCall(status) ==
    /\ ret' = [ op     |-> "get_chat_history_from_db",
                status |-> status,
                result |-> get_chat_history_from_db(status, table) ]
    /\ UNCHANGED <<pc, prompt, chat_history, res, resolved, out, failure, trace, log, table,
                 workers, completed>>

NextDb ==
    \/ \E kind \in RowKinds : InsertRow(kind)
    \/ \E status \in DbStatuses : GetChatHistoryFromDbCall(status)

SpecDb == InitDb /\ [][NextDb]_vars

-----------------------------------------------------------------------------
(* Claims about the relational loader, checked under SpecDb *)

\* C8: the window of get_chat_history_from_db has at most 9 turns, keeps
\* them in query order and holds no turn derived from the most recent row
\* of the result, also when that row is a bot row with tool turns.
ClaimC8_DbWindow ==
    (ret.op = "get_chat_history_from_db" /\ ret.status = "ok") =>
        LET w == ret.result.window
        IN  /\ Len(w) <= 9
            /\ \A i \in 1..Len(w), j \in 1..Len(w) : i < j => w[i].row <= w[j].row
            /\ \A i \in 1..Len(w) : w[i].row # Len(table)

\* A row the loader cannot turn into turns: a user or bot row without a
\* message, a bot row whose meta_data is a number
RowFails(r) ==
    \/ r.type \in { "user", "bot" } /\ r.message.null
    \/ r.type = "bot" /\ ~r.meta_data.null /\ r.meta_data.text = "5"

\* C9: when the connect call fails, the query fails or a row cannot be
\* turned into turns, get_chat_history_from_db returns the empty window;
\* it never raises.
ClaimC9_DbFailure ==
    ret.op = "get_chat_history_from_db" =>
        /\ ret.result.raised = FALSE
        /\ ( \/ ret.status # "ok"
             \/ \E i \in 1..Len(table) : RowFails(table[i]) )
            => ret.result.window = <<>>

WitnessC9 ==
    /\ ret.op = "get_chat_history_from_db"
    /\ ret.status = "connect_error"
    /\ Len(table) = 3
    /\ \A i \in 1..3 : ~RowFails(table[i]) /\ table[i].type = "bot"
    /\ ret.result.window = <<>>
    /\ ret.result.raised = FALSE

\* The meta_data texts of the model that ast.literal_eval cannot turn into
\* a value
UnparseableTexts == { "{'functions': [", "{'functions': {[]}}", "-...-1" }

HasUnparseableMetadata(r) ==
    r.type = "bot" /\ ~r.meta_data.null /\ r.meta_data.text \in UnparseableTexts

\* The chat table with the unparseable metadata of its bot rows absent
WithoutUnparseableMetadata(rows) ==
    [ i \in 1..Len(rows) |->
        IF HasUnparseableMetadata(rows[i])
        THEN [ rows[i] EXCEPT !.meta_data = NullCell ]
        ELSE rows[i] ]

\* C12: a bot row whose metadata cannot be parsed is handled as if it had
\* no metadata: the load returns what it returns for the same rows with
\* that metadata absent (no TOOL turn of the row, its ASSISTANT turn and
\* the turns of the other rows as they are), and the load does not fail.
ClaimC12_MalformedMetadata ==
    ( /\ ret.op = "get_chat_history_from_db"
      /\ ret.status = "ok"
      /\ \E i \in 1..Len(table) : HasUnparseableMetadata(table[i]) )
    => /\ ret.result.raised = FALSE
       /\ ret.result = get_chat_history_from_db("ok", WithoutUnparseableMetadata(table))
=============================================================================
